---- MODULE Spec2Model ----
(***************************************************************************)
(* jsx-to-pdf: the PDF generator (generatePdfFromJsx, compileJsxString,    *)
(* generatePdfFromJsxString) and the route handlers that call it.          *)
(*                                                                         *)
(* JavaScript objects are functions from their own keys to values; a key   *)
(* that is not in the DOMAIN reads as undefined.  Text is a sequence of    *)
(* chunks, a chunk being one HTML metacharacter or a run of plain          *)
(* characters; an HTML string is a sequence of chunks too.                 *)
(***************************************************************************)
EXTENDS Integers, Sequences, FiniteSets, TLC

\* ------------------------------------------------------------------ bounds

\* Number of callers (HTTP requests or library calls) that can be in flight
\* together.
NumReq == 2

Reqs == 1..NumReq

\* ------------------------------------------------------------ JS objects

EmptyObj == << >>

Has(o, k) == k \in DOMAIN o

\* {...a, ...b}: own keys of both, b's value wherever b has the key.
Spread(a, b) ==
  [k \in (DOMAIN a) \cup (DOMAIN b) |-> IF k \in DOMAIN b THEN b[k] ELSE a[k]]

\* The objects that either lack key k or hold one of vals under it.
Optional(k, vals) == {EmptyObj} \cup { k :> v : v \in vals }

\* ------------------------------------------------------------------ text

Cat3(a, b, c) == a \o b \o c

\* A variant of the escaping that takes care of quotes and ampersands only.
EscapeQuotesOnly(c) ==
  CASE c = "&" -> "&amp;"
    [] c = "'" -> "&#x27;"
    [] c = "\"" -> "&quot;"
    [] OTHER -> c

\* React's text escaping, one chunk at a time.
EscapeChunk(c) ==
  CASE c = "<" -> "&lt;"
    [] c = ">" -> "&gt;"
    [] c = "&" -> "&amp;"
    [] c = "'" -> "&#x27;"
    [] c = "\"" -> "&quot;"
    [] OTHER -> c

EscapeHtml(s) == [i \in 1..Len(s) |-> EscapeChunk(s[i])]

\* The text of a string-valued prop; undefined renders nothing.
PropText(props, k) == IF Has(props, k) THEN props[k] ELSE << >>

\* ------------------------------------------------------- render options

Sides == {"top", "right", "bottom", "left"}

Formats == {"A4", "Letter", "Legal"}

DefaultMargin == "0.5in"

DefaultFilename == <<"document.pdf">>

\* A margin length a caller sends that differs from the default.
CallerMargin == "1in"

defaultOptions ==
  [format |-> "Letter",
   landscape |-> FALSE,
   margin |-> [s \in Sides |-> DefaultMargin],
   filename |-> DefaultFilename]

\* A variant merge with the spread the other way round: the defaults win.
MergeDefaultsWin(options) == Spread(options, defaultOptions)

MergeOptions(options) == Spread(defaultOptions, options)

\* A variant of the page.pdf arguments that leaves background printing to
\* the caller's options.
PdfArgsCallerBackground(merged) ==
  [format |-> merged.format,
   landscape |-> merged.landscape,
   margin |-> merged.margin,
   printBackground |->
     IF Has(merged, "printBackground") THEN merged.printBackground ELSE TRUE]

\* What page.pdf receives.

PdfArgs(merged) ==
  [format |-> merged.format,
   landscape |-> merged.landscape,
   margin |-> merged.margin,
   printBackground |-> TRUE]

\* Caller margins: every subset of the sides.
Margins == { [s \in S |-> CallerMargin] : S \in SUBSET Sides }

CustomFilename == <<"custom.pdf">>

\* Every valid PdfOptions value with each field given or left out.
AllOptions ==
  { f @@ l @@ m @@ n :
      f \in Optional("format", Formats),
      l \in Optional("landscape", BOOLEAN),
      m \in Optional("margin", Margins),
      n \in Optional("filename", {CustomFilename}) }

\* ---------------------------------------------------- template sources

\* The dynamic template sources of the model, by their text.
SrcEmpty == ""

\* The scenario source of the specification.
SrcTitle == "function Template(props){ return <div>{props.title}</div>; }"

SrcRaw == "function Template(props){ return <div dangerouslySetInnerHTML={{__html: props.c}} />; }"

\* An unbalanced tag: Babel rejects it.
SrcUnbalanced == "function Template(props){ return <div>{props.title}; }"

\* Parses, but declares no Template.
SrcNoTemplate == "function Page(props){ return <div>{props.title}</div>; }"

\* Parses, but raises while the unit is evaluated.
SrcThrows == "throw new Error('boom'); function Template(props){ return <div/>; }"

\* Parses under Babel, but is no function body: import is module syntax.
SrcImport == "import fs from 'fs'; function Template(props){ return <div/>; }"

\* Reaches for the module loader, which is not a global.
SrcRequire == "const fs = require('fs'); function Template(props){ return <div/>; }"

\* Writes the process environment while the unit is evaluated.
SrcEnv == "process.env.PDF_MARK = '1'; function Template(props){ return <div>{props.title}</div>; }"

\* Compiles, but the view raises when props.rows is undefined.
SrcViewThrows == "function Template(props){ return <ul>{props.rows.map(r => <li>{r}</li>)}</ul>; }"

\* Reads a global while the unit is evaluated, keeps what it read for its
\* Template, and sets the global.
SrcSeen == "const v = globalThis.seen ? 'again' : 'first'; globalThis.seen = true; function Template(props){ return <div>{v}</div>; }"

Sources ==
  {SrcEmpty, SrcTitle, SrcRaw, SrcUnbalanced, SrcNoTemplate, SrcThrows, SrcImport,
   SrcRequire, SrcEnv, SrcViewThrows}

\* What Babel and the JavaScript parser make of each source: whether
\* transformSync accepts it, whether the transformed code is non-empty, whether
\* it is a legal function body, the names it declares at top level, the free
\* names its top-level statements read, whether a top-level statement throws,
\* and the host state its top-level statements write.
SourceInfo(src) ==
  LET base == [parses |-> TRUE, code |-> TRUE, body |-> TRUE, declares |-> {"Template"},
               reads |-> {}, throws |-> FALSE, writes |-> {}]
  IN CASE src = SrcEmpty -> [base EXCEPT !.code = FALSE, !.declares = {}]
       [] src = SrcUnbalanced -> [base EXCEPT !.parses = FALSE]
       [] src = SrcNoTemplate -> [base EXCEPT !.declares = {"Page"}]
       [] src = SrcThrows -> [base EXCEPT !.throws = TRUE]
       [] src = SrcImport -> [base EXCEPT !.body = FALSE]
       [] src = SrcRequire -> [base EXCEPT !.reads = {"require"}, !.declares = {"Template", "fs"}]
       [] src = SrcEnv -> [base EXCEPT !.reads = {"process"}, !.writes = {"process.env"}]
       [] src = SrcSeen ->
            [base EXCEPT !.reads = {"globalThis"}, !.writes = {"globalThis.seen"},
                         !.declares = {"Template", "v"}]
       [] OTHER -> base

\* Names of the Node.js global object: what code made by the Function
\* constructor can reach besides its own declarations.
GlobalScope == {"process", "globalThis", "console", "Math", "Date"}

\* The module's own bindings, which the Function constructor does not close
\* over: among them the Template of compileJsxString.
ModuleScope == {"require", "fs", "path", "babel", "cssContent", "Template"}

\* The scope functionBody is evaluated in: the global object, the two
\* constants the body declares, and the source's own declarations.
FunctionScope(src) == GlobalScope \cup {"React", "data"} \cup SourceInfo(src).declares

\* ----------------------------------------------------------- elements

\* React.createElement('div', null, 'Error rendering template')
FallbackElement ==
  [type |-> "div", source |-> "", closure |-> << >>,
   props |-> [children |-> <<"Error rendering template">>]]

\* React.createElement(Template, data), Template being the source's function;
\* closure is what the function keeps of the host state read by its unit.
UserElement(src, data) ==
  [type |-> "Template", source |-> src, closure |-> << >>, props |-> data]

\* The element the Template of compileJsxString itself would give.
LocalElement(src, data) ==
  [type |-> "LocalTemplate", source |-> "", closure |-> << >>, props |-> data]

\* What the top-level statements of src read from the host state host and
\* leave to their Template.
HostRead(src, host) ==
  IF src = SrcSeen
    THEN IF "globalThis.seen" \in host THEN <<"again">> ELSE <<"first">>
    ELSE << >>

\* The element of a unit evaluated under the host state host.
EvaluatedUnder(element, host) ==
  IF element.type = "Template"
    THEN [element EXCEPT !.closure = HostRead(element.source, host)]
    ELSE element

\* The try block of compileJsxString: the element it returns, or the error it
\* throws, and the host state its evaluation wrote.
TryCompile(jsxString, data) ==
  LET info == SourceInfo(jsxString)
      Fail(msg, w) == [ok |-> FALSE, element |-> FallbackElement, message |-> msg, writes |-> w]
  IN IF ~info.parses THEN Fail("SyntaxError: dynamic-template.jsx", {})
     ELSE IF ~info.code THEN Fail("Failed to transform JSX code", {})
     ELSE IF ~info.body THEN Fail("SyntaxError: Cannot use import statement outside a module", {})
     ELSE IF info.throws THEN Fail("Error: boom", {})
     ELSE IF ~(info.reads \subseteq FunctionScope(jsxString))
       THEN Fail("ReferenceError: require is not defined", {})
     ELSE IF "Template" \notin FunctionScope(jsxString)
       THEN Fail("ReferenceError: Template is not defined", info.writes)
     ELSE [ok |-> TRUE, element |-> UserElement(jsxString, data), message |-> "",
           writes |-> info.writes]

\* A variant that builds the element from the Template compileJsxString
\* declares itself instead of the one the source declares.
CompileWithLocalTemplate(jsxString, data) ==
  LET t == TryCompile(jsxString, data)
  IN [threw |-> FALSE,
      element |-> IF t.ok THEN LocalElement(jsxString, data) ELSE t.element,
      message |-> t.message, writes |-> t.writes]

\* A variant whose catch block rethrows the error instead of returning the
\* fallback element.
CompileRethrows(jsxString, data) ==
  LET t == TryCompile(jsxString, data)
  IN [threw |-> ~t.ok, element |-> t.element, message |-> t.message, writes |-> t.writes]

\* compileJsxString: the catch block turns every failure into the fallback
\* element; nothing is thrown.
CompileJsxString(jsxString, data) ==
  LET t == TryCompile(jsxString, data)
  IN [threw |-> FALSE, element |-> t.element, message |-> t.message, writes |-> t.writes]

\* -------------------------------------------------------- view renderer

\* A host element with one text child, as a caller of the library may pass.
DivElement(text) ==
  [type |-> "div", source |-> "", closure |-> << >>, props |-> [children |-> text]]

\* The markup of a user-defined Template, or the error its body raises.
UserView(src, props) ==
  CASE src = SrcRaw ->
         [ok |-> TRUE, html |-> Cat3(<<"<div>">>, PropText(props, "c"), <<"</div>">>),
          message |-> ""]
    [] src \in {SrcTitle, SrcEnv} ->
         [ok |-> TRUE,
          html |-> Cat3(<<"<div>">>, EscapeHtml(PropText(props, "title")), <<"</div>">>),
          message |-> ""]
    [] src = SrcViewThrows ->
         IF Has(props, "rows")
           THEN [ok |-> TRUE, html |-> Cat3(<<"<ul>">>, EscapeHtml(props.rows), <<"</ul>">>),
                 message |-> ""]
           ELSE [ok |-> FALSE, html |-> << >>,
                 message |-> "TypeError: Cannot read properties of undefined (reading 'map')"]
    [] OTHER -> [ok |-> TRUE, html |-> <<"<div>", "</div>">>, message |-> ""]

\* An array-valued prop of a static template, as the JSON body carries it:
\* an array of rows (truthy even when empty), a truthy value that is no
\* array (an object, a non-empty string), or a falsy value (null, 0, false, "").
ArrayOf(rows) == [array |-> TRUE, truthy |-> TRUE, rows |-> rows]

NotAnArray == [array |-> FALSE, truthy |-> TRUE, rows |-> << >>]

FalsyValue == [array |-> FALSE, truthy |-> FALSE, rows |-> << >>]

Thrown(msg) == [ok |-> FALSE, html |-> << >>, message |-> msg]

\* The table rows of InvoiceTemplate: the description of each item.
RECURSIVE ItemRows(_)
ItemRows(rows) ==
  IF rows = << >> THEN << >>
  ELSE Cat3(<<"<tr>">>, EscapeHtml(PropText(Head(rows), "description")), <<"</tr>">>)
         \o ItemRows(Tail(rows))

\* items.reduce((sum, item) => sum + item.quantity * item.unitPrice, 0), for
\* whole quantities and whole unit prices.
RECURSIVE Subtotal(_)
Subtotal(rows) ==
  IF rows = << >> THEN 0
  ELSE Head(rows).quantity * Head(rows).unitPrice + Subtotal(Tail(rows))

\* x.toFixed(2) for an amount x given in tenths: the whole part, the point,
\* the tenths digit and a zero.  The product of a whole number and 0.1 is a
\* double next to the exact tenth, far from any rounding boundary of the
\* second decimal, so toFixed prints the exact tenth.
ToFixed2(tenths) == <<ToString(tenths \div 10), ".", ToString(tenths % 10), "0">>

\* A variant of the totals whose total leaves the tax out.
TotalsWithoutTax(rows) ==
  LET subtotal == 10 * Subtotal(rows)
      tax == subtotal \div 10
  IN [subtotal |-> ToFixed2(subtotal), tax |-> ToFixed2(tax), total |-> ToFixed2(subtotal)]

\* subtotal, tax = subtotal * 0.1 and total = subtotal + tax of
\* InvoiceTemplate, in tenths, each as toFixed(2) prints it.
InvoiceTotals(rows) ==
  LET subtotal == 10 * Subtotal(rows)
      tax == subtotal \div 10
      total == subtotal + tax
  IN [subtotal |-> ToFixed2(subtotal), tax |-> ToFixed2(tax), total |-> ToFixed2(total)]

\* InvoiceTemplate(props): items.reduce(...) for the subtotal, then items.map
\* with item.unitPrice.toFixed(2) for the rows.
InvoiceView(props) ==
  IF ~Has(props, "items")
    THEN Thrown("TypeError: Cannot read properties of undefined (reading 'reduce')")
  ELSE IF ~props.items.array
    THEN Thrown("TypeError: items.reduce is not a function")
  ELSE IF \E i \in DOMAIN props.items.rows : ~Has(props.items.rows[i], "unitPrice")
    THEN Thrown("TypeError: Cannot read properties of undefined (reading 'toFixed')")
  ELSE [ok |-> TRUE,
        html |-> <<"<div class=invoice>">>
                   \o EscapeHtml(PropText(props, "invoiceNumber"))
                   \o EscapeHtml(PropText(props, "customerName"))
                   \o <<"<table>">> \o ItemRows(props.items.rows) \o <<"</table>">>
                   \o <<"Subtotal:", "$">> \o InvoiceTotals(props.items.rows).subtotal
                   \o <<"Tax (10%):", "$">> \o InvoiceTotals(props.items.rows).tax
                   \o <<"Total:", "$">> \o InvoiceTotals(props.items.rows).total
                   \o <<"</div>">>,
        message |-> ""]

\* The bars of ReportTemplate: the label of each data point.
RECURSIVE DataRows(_)
DataRows(rows) ==
  IF rows = << >> THEN << >>
  ELSE Cat3(<<"<li>">>, EscapeHtml(PropText(Head(rows), "label")), <<"</li>">>)
         \o DataRows(Tail(rows))

\* ReportTemplate(props): Math.max(...data.map(item => item.value)) first.
ReportView(props) ==
  IF ~Has(props, "data")
    THEN Thrown("TypeError: Cannot read properties of undefined (reading 'map')")
  ELSE IF ~props.data.array
    THEN Thrown("TypeError: data.map is not a function")
  ELSE [ok |-> TRUE,
        html |-> <<"<div class=report>">>
                   \o EscapeHtml(PropText(props, "title"))
                   \o EscapeHtml(PropText(props, "summary"))
                   \o <<"<ul>">> \o DataRows(props.data.rows)
                   \o <<"</ul>", "</div>">>,
        message |-> ""]

\* renderToStaticMarkup(template): the HTML fragment, or the error raised by
\* the view.
RenderToStaticMarkup(template) ==
  CASE template.type = "div" ->
         [ok |-> TRUE,
          html |-> Cat3(<<"<div>">>, EscapeHtml(template.props.children), <<"</div>">>),
          message |-> ""]
    [] template.type = "Template" /\ template.source = SrcSeen ->
         [ok |-> TRUE, html |-> Cat3(<<"<div>">>, EscapeHtml(template.closure), <<"</div>">>),
          message |-> ""]
    [] template.type = "Template" -> UserView(template.source, template.props)
    [] template.type = "InvoiceTemplate" -> InvoiceView(template.props)
    [] template.type = "ReportTemplate" -> ReportView(template.props)
    [] OTHER ->
         [ok |-> TRUE,
          html |-> Cat3(<<"<div>">>,
                        IF Has(template.props, "children")
                          THEN EscapeHtml(template.props.children) ELSE <<"Empty Template">>,
                        <<"</div>">>),
          message |-> ""]

\* ---------------------------------------------------- document assembler

\* The utility style sheet, read once at startup.
cssContent == "/* styles.css */"

\* The template literal of generatePdfFromJsx.
FullHtml(filename, htmlContent) ==
  <<"<!DOCTYPE html>", "<html>", "<head>", "<meta charset=UTF-8>", "<title>">>
    \o filename
    \o <<"</title>", "<style>", cssContent, "</style>", "</head>", "<body>">>
    \o htmlContent
    \o <<"</body>", "</html>">>

\* ----------------------------------------------------- generatePdfFromJsx

\* A variant of generatePdfFromJsx that puts a placeholder fragment in the
\* place of a view that raised and carries on.
GeneratePdfStartPlaceholder(template, options) ==
  LET merged == MergeOptions(options)
      rendered == RenderToStaticMarkup(template)
  IN [threw |-> FALSE, message |-> "", mergedOptions |-> merged,
      fullHtml |-> FullHtml(merged.filename,
                            IF rendered.ok THEN rendered.html
                            ELSE <<"<div>", "Error rendering template", "</div>">>),
      stages |-> <<"render", "assemble", "launch">>]

\* A variant of generatePdfFromJsx that launches the browser before it
\* renders the view.
GeneratePdfStartLaunchFirst(template, options) ==
  LET merged == MergeOptions(options)
      rendered == RenderToStaticMarkup(template)
  IN IF rendered.ok
       THEN [threw |-> FALSE, message |-> "", mergedOptions |-> merged,
             fullHtml |-> FullHtml(merged.filename, rendered.html),
             stages |-> <<"launch", "render", "assemble">>]
       ELSE [threw |-> TRUE, message |-> rendered.message, mergedOptions |-> merged,
             fullHtml |-> << >>, stages |-> <<"launch", "render">>]

\* generatePdfFromJsx up to its first await: the options merged, the view
\* rendered (which may throw), the document assembled and puppeteer.launch
\* called.  stages lists the stages run, in order.
GeneratePdfStart(template, options) ==
  LET merged == MergeOptions(options)
      rendered == RenderToStaticMarkup(template)
  IN IF rendered.ok
       THEN [threw |-> FALSE, message |-> "", mergedOptions |-> merged,
             fullHtml |-> FullHtml(merged.filename, rendered.html),
             stages |-> <<"render", "assemble", "launch">>]
       ELSE [threw |-> TRUE, message |-> rendered.message, mergedOptions |-> merged,
             fullHtml |-> << >>, stages |-> <<"render">>]

\* ------------------------------------------------------------- inputs

DataHi == [title |-> <<"Hi">>]

DataMarkup == [title |-> <<"<", "b", ">">>, c |-> <<"<b>", "x", "</b>">>]

DataChoices == {DataHi, DataMarkup}

\* A few option objects for the callers whose options are not the subject;
\* a JSON body may carry keys PdfOptions does not name.
SomeOptions ==
  {EmptyObj,
   [format |-> "A4"],
   [landscape |-> TRUE, filename |-> CustomFilename],
   [margin |-> [top |-> CallerMargin]],
   [filename |-> << >>],
   [format |-> "Legal", landscape |-> TRUE, printBackground |-> FALSE]}

\* Calls of generatePdfFromJsx by a library user, options given or not.
LibraryCalls ==
  { [entry |-> "generatePdfFromJsx", body |-> ("template" :> DivElement(<<"Hello">>)) @@ o] :
      o \in Optional("options", AllOptions) }

\* Calls of generatePdfFromJsxString by a library user.
StringCalls ==
  { [entry |-> "generatePdfFromJsxString", body |-> ("jsxString" :> s) @@ d @@ o] :
      s \in Sources, d \in Optional("data", DataChoices), o \in Optional("options", SomeOptions) }

\* Bodies posted to /api/pdf/render.
RenderRequests ==
  { [entry |-> "/render", body |-> j @@ d @@ o] :
      j \in Optional("jsxTemplate", Sources),
      d \in Optional("data", DataChoices),
      o \in Optional("options", SomeOptions) }

\* Invoice items and report data points as a body may carry them.
Item == [description |-> <<"Widget", "&", "Co">>, quantity |-> 2, unitPrice |-> 5]

ItemNoPrice == [description |-> <<"Widget">>, quantity |-> 2]

ItemsChoices ==
  {ArrayOf(<< >>), ArrayOf(<<Item>>), ArrayOf(<<Item, ItemNoPrice>>), NotAnArray, FalsyValue}

DataPoint == [label |-> <<"Q1">>, value |-> 10]

PointsChoices == {ArrayOf(<< >>), ArrayOf(<<DataPoint>>), NotAnArray, FalsyValue}

ReportTitle == <<"Q1", " ", " ", "Sales">>

\* Bodies posted to /api/pdf/invoice.
InvoiceRequests ==
  { [entry |-> "/invoice", body |-> n @@ d @@ dd @@ cn @@ ca @@ it] :
      n \in Optional("invoiceNumber", {<<"42">>, << >>}),
      d \in Optional("date", {<<"2024-01-01">>}),
      dd \in Optional("dueDate", {<<"2024-02-01">>}),
      cn \in Optional("customerName", {<<"A", "<", "B">>}),
      ca \in Optional("customerAddress", {<<"1 Main St">>}),
      it \in Optional("items", ItemsChoices) }

\* Bodies posted to /api/pdf/report.
ReportRequests ==
  { [entry |-> "/report", body |-> t @@ d @@ a @@ s @@ p] :
      t \in Optional("title", {ReportTitle, << >>}),
      d \in Optional("date", {<<"2024-01-01">>}),
      a \in Optional("author", {<<"Ann">>}),
      s \in Optional("summary", {<<"Good">>}),
      p \in Optional("data", PointsChoices) }

FullInvoice ==
  [invoiceNumber |-> <<"42">>, date |-> <<"2024-01-01">>, dueDate |-> <<"2024-02-01">>,
   customerName |-> <<"A", "<", "B">>, customerAddress |-> <<"1 Main St">>,
   items |-> ArrayOf(<<Item>>)]

FullReport ==
  [title |-> ReportTitle, date |-> <<"2024-01-01">>, author |-> <<"Ann">>,
   summary |-> <<"Good">>, data |-> ArrayOf(<<DataPoint>>)]

\* The data objects posted to /api/pdf/generate: complete props, props with
\* a field left out or of the wrong kind, {}, and null.
GenerateData ==
  {EmptyObj, FullInvoice, FullReport, FalsyValue,
   [k \in (DOMAIN FullInvoice) \ {"items"} |-> FullInvoice[k]],
   [k \in (DOMAIN FullInvoice) \ {"invoiceNumber"} |-> FullInvoice[k]],
   [FullInvoice EXCEPT !.items = NotAnArray],
   [k \in (DOMAIN FullReport) \ {"data"} |-> FullReport[k]],
   [k \in (DOMAIN FullReport) \ {"title"} |-> FullReport[k]]}

TemplateTypes == {"invoice", "report", "letter", ""}

\* Bodies posted to /api/pdf/generate.
GenerateRequests ==
  { [entry |-> "/generate", body |-> t @@ d @@ o] :
      t \in Optional("templateType", TemplateTypes),
      d \in Optional("data", GenerateData),
      o \in Optional("options", {EmptyObj, [format |-> "A4"], [filename |-> CustomFilename]}) }

AllInputs ==
  LibraryCalls \cup StringCalls \cup RenderRequests
    \cup InvoiceRequests \cup ReportRequests \cup GenerateRequests

\* The inputs of the concurrent specification.
SmallInputs ==
  {[entry |-> "generatePdfFromJsx", body |-> [template |-> DivElement(<<"Hello">>)]],
   [entry |-> "generatePdfFromJsxString", body |-> [jsxString |-> SrcUnbalanced]],
   [entry |-> "/render", body |-> [jsxTemplate |-> SrcSeen, data |-> DataHi]],
   [entry |-> "/render", body |-> [data |-> DataHi]],
   [entry |-> "/invoice", body |-> [invoiceNumber |-> <<"42">>]],
   [entry |-> "/report", body |-> [title |-> ReportTitle]],
   [entry |-> "/generate", body |-> [templateType |-> "letter", data |-> EmptyObj]]}

\* -------------------------------------------------------------- state

VARIABLES
  pc,        \* where each caller stands
  req,       \* the call or HTTP request of each caller
  gen,       \* the locals of its generatePdfFromJsx / compileJsxString call
  result,    \* how its generatePdfFromJsx(String) call settled
  resp,      \* the HTTP response sent to it
  log,       \* the stages and engine calls it has made, in order
  browsers,  \* the browsers puppeteer has launched
  hostState, \* host state written by evaluated template sources
  aborted    \* the requests whose client has closed the connection

vars == <<pc, req, gen, result, resp, log, browsers, hostState, aborted>>

NoInput == [entry |-> "", body |-> EmptyObj]

NoElement == [type |-> "", source |-> "", closure |-> << >>, props |-> EmptyObj]

NoResult == [kind |-> "none", at |-> "", message |-> "", pdf |-> EmptyObj]

NoResp == [status |-> 0, headers |-> EmptyObj, pdf |-> EmptyObj, json |-> EmptyObj]

NoGen ==
  [compiled |-> FALSE, compileThrew |-> FALSE, compileMessage |-> "", element |-> NoElement,
   mergedOptions |-> EmptyObj, fullHtml |-> << >>, browser |-> 0, pdfArgs |-> EmptyObj,
   pending |-> NoResult]

NoBrowser == [state |-> "unused", owner |-> 0, pages |-> 0, content |-> << >>, closeCalls |-> 0]

Init ==
  /\ pc = [r \in Reqs |-> "idle"]
  /\ req = [r \in Reqs |-> NoInput]
  /\ gen = [r \in Reqs |-> NoGen]
  /\ result = [r \in Reqs |-> NoResult]
  /\ resp = [r \in Reqs |-> NoResp]
  /\ log = [r \in Reqs |-> << >>]
  /\ browsers = [b \in Reqs |-> NoBrowser]
  /\ hostState = {}
  /\ aborted = {}

\* A rejected promise / thrown error, by the step that raised it.
Failure(step, msg) == [kind |-> "error", at |-> step, message |-> msg, pdf |-> EmptyObj]

\* Buffer.from(pdfBuffer): the bytes printed from a page content with the
\* arguments given to page.pdf.
Bytes(content, args) ==
  [kind |-> "bytes", at |-> "", message |-> "", pdf |-> [html |-> content, args |-> args]]

\* ------------------------------------------------------- /api/pdf/render

\* options?.filename || 'document.pdf'
RenderFilename(body) ==
  IF Has(body, "options") /\ Has(body.options, "filename") /\ body.options.filename # << >>
    THEN body.options.filename
    ELSE DefaultFilename

\* { ...options, filename }
RenderOptions(body) ==
  Spread(IF Has(body, "options") THEN body.options ELSE EmptyObj,
         [filename |-> RenderFilename(body)])

\* A variant of the check that rejects an undefined jsxTemplate only.
UndefinedJsxTemplate(body) == ~Has(body, "jsxTemplate")

\* !jsxTemplate
MissingJsxTemplate(body) == ~Has(body, "jsxTemplate") \/ body.jsxTemplate = ""

BadRequest(msg) ==
  [status |-> 400, headers |-> EmptyObj, pdf |-> EmptyObj, json |-> [error |-> msg]]

PdfResponse(filename, pdf) ==
  [status |-> 200,
   headers |-> ("Content-Type" :> <<"application/pdf">>)
                 @@ ("Content-Disposition" :> <<"attachment; filename=">> \o filename),
   pdf |-> pdf,
   json |-> EmptyObj]

\* A variant of the catch block of /render that reports every error as
\* unknown.
RenderFailureUnknown(res) ==
  [status |-> 500, headers |-> EmptyObj, pdf |-> EmptyObj,
   json |-> [error |-> "Failed to generate PDF", details |-> "Unknown error"]]

\* The catch block of the /render handler.
RenderFailure(res) ==
  [status |-> 500, headers |-> EmptyObj, pdf |-> EmptyObj,
   json |-> [error |-> "Failed to generate PDF", details |-> res.message]]

\* ------------------------------------------------- fixed-template routes

\* The string fields the /invoice handler requires, and the props it passes on.
InvoiceText == {"invoiceNumber", "date", "dueDate", "customerName", "customerAddress"}

InvoiceKeys ==
  InvoiceText \cup {"items", "notes", "companyName", "companyAddress", "companyEmail",
                    "companyPhone"}

\* A variant of the /invoice check that also looks at the shape of items: it
\* must be an array with at least one row.
MalformedInvoiceFields(body) ==
  \/ \E k \in InvoiceText : ~Has(body, k) \/ body[k] = << >>
  \/ ~Has(body, "items") \/ ~body.items.array \/ body.items.rows = << >>

\* !invoiceNumber || !date || !dueDate || !customerName || !customerAddress || !items
\* An empty string is falsy; an array, empty or not, is truthy.
MissingInvoiceFields(body) ==
  \/ \E k \in InvoiceText : ~Has(body, k) \/ body[k] = << >>
  \/ ~Has(body, "items") \/ ~body.items.truthy

\* The props object literal of the /invoice handler; a key destructured as
\* undefined reads as undefined in the view.
InvoiceProps(body) == [k \in (DOMAIN body) \cap InvoiceKeys |-> body[k]]

InvoiceElement(props) ==
  [type |-> "InvoiceTemplate", source |-> "", closure |-> << >>, props |-> props]

\* `Invoice-${invoiceNumber}.pdf`
InvoiceFilename(invoiceNumber) == Cat3(<<"Invoice-">>, invoiceNumber, <<".pdf">>)

\* The string fields the /report handler requires, and the props it passes on.
ReportText == {"title", "date", "author", "summary"}

ReportKeys == ReportText \cup {"data", "conclusion", "companyName"}

\* !title || !date || !author || !summary || !data
MissingReportFields(body) ==
  \/ \E k \in ReportText : ~Has(body, k) \/ body[k] = << >>
  \/ ~Has(body, "data") \/ ~body.data.truthy

ReportProps(body) == [k \in (DOMAIN body) \cap ReportKeys |-> body[k]]

ReportElement(props) ==
  [type |-> "ReportTemplate", source |-> "", closure |-> << >>, props |-> props]

\* title.replace(/\s+/g, '-'): every run of white space becomes one dash.
RECURSIVE Dashed(_)
Dashed(text) ==
  IF text = << >> THEN << >>
  ELSE IF Head(text) # " " THEN <<Head(text)>> \o Dashed(Tail(text))
  ELSE IF Tail(text) # << >> /\ Head(Tail(text)) = " " THEN Dashed(Tail(text))
  ELSE <<"-">> \o Dashed(Tail(text))

\* `Report-${title.replace(/\s+/g, '-')}.pdf`
ReportFilename(title) == Cat3(<<"Report-">>, Dashed(title), <<".pdf">>)

\* x || fallback, for a string x
OrElse(o, k, fallback) == IF Has(o, k) /\ o[k] # << >> THEN o[k] ELSE fallback

\* !templateType || !data
MissingGenerateFields(body) ==
  \/ ~Has(body, "templateType") \/ body.templateType = ""
  \/ ~Has(body, "data") \/ (Has(body.data, "truthy") /\ ~body.data.truthy)

\* A variant of the switch whose default case falls back to the report.
KnownOrDefaultType(templateType) == TRUE

\* The cases of the switch on templateType.
KnownTemplateType(templateType) == templateType \in {"invoice", "report"}

\* React.createElement(InvoiceTemplate | ReportTemplate, data)
GenerateElement(body) ==
  IF body.templateType = "invoice"
    THEN InvoiceElement(body.data) ELSE ReportElement(body.data)

\* The filename the switch picks.
GenerateFilename(body) ==
  IF body.templateType = "invoice"
    THEN InvoiceFilename(OrElse(body.data, "invoiceNumber", <<"generated">>))
    ELSE ReportFilename(OrElse(body.data, "title", <<"generated">>))

\* { ...options, filename }
GenerateOptions(body) ==
  Spread(IF Has(body, "options") THEN body.options ELSE EmptyObj,
         [filename |-> GenerateFilename(body)])

\* The catch block of the /invoice, /report and /generate handlers.
FixedFailure ==
  [status |-> 500, headers |-> EmptyObj, pdf |-> EmptyObj,
   json |-> [error |-> "Failed to generate PDF"]]

FixedRoutes == {"/invoice", "/report", "/generate"}

Routes == FixedRoutes \cup {"/render"}

\* The filename of the Content-Disposition header of each route.
RouteFilename(input) ==
  CASE input.entry = "/render" -> RenderFilename(input.body)
    [] input.entry = "/invoice" -> InvoiceFilename(input.body.invoiceNumber)
    [] input.entry = "/report" -> ReportFilename(input.body.title)
    [] input.entry = "/generate" -> GenerateFilename(input.body)

\* A variant of the handlers that sets the PDF headers before the generator
\* is awaited, so that they are on the error answer too.
ResponseHeadersFirst(input, res) ==
  IF input.entry \in Routes
    THEN IF res.kind = "bytes"
           THEN PdfResponse(RouteFilename(input), res.pdf)
           ELSE [(IF input.entry = "/render" THEN RenderFailure(res) ELSE FixedFailure)
                   EXCEPT !.headers = PdfResponse(RouteFilename(input), res.pdf).headers]
    ELSE NoResp

\* What the caller gets once its generatePdfFromJsx(String) call has settled:
\* a library caller gets the result itself, a route sends a response.
Response(input, res) ==
  IF input.entry \in Routes
    THEN IF res.kind = "bytes"
           THEN PdfResponse(RouteFilename(input), res.pdf)
           ELSE IF input.entry = "/render" THEN RenderFailure(res) ELSE FixedFailure
    ELSE NoResp

\* ------------------------------------------------------------ actions

\* How often caller r has made the engine call or run the stage named step.
Calls(r, step) == Cardinality({i \in DOMAIN log[r] : log[r][i] = step})

Done(r) == pc[r] = "done"

InFlight(r) == pc[r] \notin {"idle", "done"}

\* A request or library call arrives.
Arrive(r, inputs) ==
  /\ pc[r] = "idle"
  /\ \E i \in inputs : req' = [req EXCEPT ![r] = i]
  /\ pc' = [pc EXCEPT ![r] = "handler"]
  /\ UNCHANGED <<gen, result, resp, log, browsers, hostState, aborted>>

\* The call of caller r settles with res.
Settle(r, res) ==
  /\ result' = [result EXCEPT ![r] = res]
  /\ resp' = [resp EXCEPT ![r] = Response(req[r], res)]
  /\ pc' = [pc EXCEPT ![r] = "done"]

\* generatePdfFromJsx(template, options) up to its first await, g being the
\* caller's locals so far and stages the stages already run.
StartGenerate(r, template, options, g, stages) ==
  LET s == GeneratePdfStart(template, options)
  IN /\ gen' = [gen EXCEPT ![r] = [g EXCEPT !.element = template,
                                            !.mergedOptions = s.mergedOptions,
                                            !.fullHtml = s.fullHtml]]
     /\ log' = [log EXCEPT ![r] = stages \o s.stages]
     /\ IF s.threw
          THEN Settle(r, Failure("render", s.message))
          ELSE /\ pc' = [pc EXCEPT ![r] = "launch"]
               /\ UNCHANGED <<result, resp>>

\* generatePdfFromJsxString(jsxString, data, options) up to its first await.
StartGenerateString(r, jsxString, data, options, stages) ==
  LET compiled == CompileJsxString(jsxString, data)
      c == [compiled EXCEPT !.element = EvaluatedUnder(@, hostState)]
      g == [gen[r] EXCEPT !.compiled = TRUE, !.compileThrew = c.threw,
                          !.compileMessage = c.message, !.element = c.element]
  IN /\ hostState' = hostState \cup c.writes
     /\ IF c.threw
          THEN /\ gen' = [gen EXCEPT ![r] = g]
               /\ log' = [log EXCEPT ![r] = stages \o <<"compile">>]
               /\ Settle(r, Failure("compile", c.message))
          ELSE StartGenerate(r, c.element, options, g, stages \o <<"compile">>)

\* A library user calls generatePdfFromJsx(template, options); options
\* defaults to {}.
CallGeneratePdfFromJsx(r) ==
  /\ pc[r] = "handler"
  /\ req[r].entry = "generatePdfFromJsx"
  /\ LET body == req[r].body
     IN StartGenerate(r, body.template,
                      IF Has(body, "options") THEN body.options ELSE EmptyObj,
                      gen[r], << >>)
  /\ UNCHANGED <<req, browsers, hostState, aborted>>

\* A library user calls generatePdfFromJsxString(jsxString, data, options);
\* data and options default to {}.
CallGeneratePdfFromJsxString(r) ==
  /\ pc[r] = "handler"
  /\ req[r].entry = "generatePdfFromJsxString"
  /\ LET body == req[r].body
     IN StartGenerateString(r, body.jsxString,
                            IF Has(body, "data") THEN body.data ELSE EmptyObj,
                            IF Has(body, "options") THEN body.options ELSE EmptyObj,
                            << >>)
  /\ UNCHANGED <<req, browsers, aborted>>

\* POST /api/pdf/render, up to the first await of the handler.
PostRender(r) ==
  /\ pc[r] = "handler"
  /\ req[r].entry = "/render"
  /\ LET body == req[r].body
     IN IF MissingJsxTemplate(body)
          THEN /\ resp' = [resp EXCEPT ![r] = BadRequest("Missing JSX template")]
               /\ pc' = [pc EXCEPT ![r] = "done"]
               /\ log' = [log EXCEPT ![r] = <<"validate">>]
               /\ UNCHANGED <<gen, result, hostState>>
          ELSE StartGenerateString(r, body.jsxTemplate,
                                   IF Has(body, "data") THEN body.data ELSE EmptyObj,
                                   RenderOptions(body), <<"validate">>)
  /\ UNCHANGED <<req, browsers, aborted>>

\* A handler answers 400 after its check of the body.
Reject(r, msg) ==
  /\ resp' = [resp EXCEPT ![r] = BadRequest(msg)]
  /\ pc' = [pc EXCEPT ![r] = "done"]
  /\ log' = [log EXCEPT ![r] = <<"validate">>]
  /\ UNCHANGED <<gen, result>>

\* POST /api/pdf/invoice, up to the first await of the handler.
PostInvoice(r) ==
  /\ pc[r] = "handler"
  /\ req[r].entry = "/invoice"
  /\ LET body == req[r].body
     IN IF MissingInvoiceFields(body)
          THEN Reject(r, "Missing required fields")
          ELSE StartGenerate(r, InvoiceElement(InvoiceProps(body)),
                             [filename |-> InvoiceFilename(body.invoiceNumber)],
                             gen[r], <<"validate">>)
  /\ UNCHANGED <<req, browsers, hostState, aborted>>

\* POST /api/pdf/report, up to the first await of the handler.
PostReport(r) ==
  /\ pc[r] = "handler"
  /\ req[r].entry = "/report"
  /\ LET body == req[r].body
     IN IF MissingReportFields(body)
          THEN Reject(r, "Missing required fields")
          ELSE StartGenerate(r, ReportElement(ReportProps(body)),
                             [filename |-> ReportFilename(body.title)],
                             gen[r], <<"validate">>)
  /\ UNCHANGED <<req, browsers, hostState, aborted>>

\* POST /api/pdf/generate, up to the first await of the handler.
PostGenerate(r) ==
  /\ pc[r] = "handler"
  /\ req[r].entry = "/generate"
  /\ LET body == req[r].body
     IN IF MissingGenerateFields(body)
          THEN Reject(r, "Missing required fields")
          ELSE IF ~KnownTemplateType(body.templateType)
          THEN Reject(r, "Invalid template type")
          ELSE StartGenerate(r, GenerateElement(body), GenerateOptions(body),
                             gen[r], <<"validate">>)
  /\ UNCHANGED <<req, browsers, hostState, aborted>>

EngineSteps == {"launch", "newPage", "setContent", "pdf", "close"}

\* The client of an HTTP request closes the connection while the handler
\* awaits the engine.  No handler listens for it: nothing of the request
\* changes.
Abort(r) ==
  /\ pc[r] \in EngineSteps
  /\ req[r].entry \in Routes
  /\ r \notin aborted
  /\ aborted' = aborted \cup {r}
  /\ UNCHANGED <<pc, req, gen, result, resp, log, browsers, hostState>>

\* ------------------------------------------------------ the engine steps

\* A variant of the launch in which every call gets the same, shared browser.
SharedBrowser(r) == 1

\* The browser puppeteer.launch gives caller r: a new instance for each call.
LaunchedBrowser(r) == r

\* Variants of the finally block that tear down differently: one
\* that closes on the success path only, one that closes a second time.
CloseOnSuccessOnly(r, outcome) ==
  LET b == gen[r].browser
  IN IF outcome.kind = "error"
       THEN /\ Settle(r, outcome)
            /\ gen' = [gen EXCEPT ![r].pending = outcome]
            /\ UNCHANGED <<browsers, log>>
       ELSE /\ gen' = [gen EXCEPT ![r].pending = outcome]
            /\ browsers' = [browsers EXCEPT ![b].closeCalls = @ + 1]
            /\ log' = [log EXCEPT ![r] = Append(@, "close")]
            /\ pc' = [pc EXCEPT ![r] = "close"]
            /\ UNCHANGED <<result, resp>>

CloseTwice(r, outcome) ==
  LET b == gen[r].browser
  IN /\ gen' = [gen EXCEPT ![r].pending = outcome]
     /\ browsers' = [browsers EXCEPT ![b].closeCalls = @ + (IF outcome.kind = "error" THEN 2 ELSE 1)]
     /\ log' = [log EXCEPT ![r] = @ \o (IF outcome.kind = "error"
                                          THEN <<"close", "close">> ELSE <<"close">>)]
     /\ pc' = [pc EXCEPT ![r] = "close"]
     /\ UNCHANGED <<result, resp>>

\* The finally block is entered: browser.close() is called, outcome being the
\* bytes to return or the error to rethrow once it resolves.
EnterFinally(r, outcome) ==
  LET b == gen[r].browser
  IN /\ gen' = [gen EXCEPT ![r].pending = outcome]
     /\ browsers' = [browsers EXCEPT ![b].closeCalls = @ + 1]
     /\ log' = [log EXCEPT ![r] = Append(@, "close")]
     /\ pc' = [pc EXCEPT ![r] = "close"]
     /\ UNCHANGED <<result, resp>>

\* A variant of the launch that calls puppeteer.launch again when it was
\* rejected.
LaunchWithRetry(r) ==
  /\ pc[r] = "launch"
  /\ \/ LET b == LaunchedBrowser(r)
        IN /\ browsers' = [browsers EXCEPT ![b] = [@ EXCEPT !.state = "open", !.owner = r]]
           /\ gen' = [gen EXCEPT ![r].browser = b]
           /\ log' = [log EXCEPT ![r] = Append(@, "newPage")]
           /\ pc' = [pc EXCEPT ![r] = "newPage"]
           /\ UNCHANGED <<result, resp>>
     \/ /\ Calls(r, "launch") < 2
        /\ log' = [log EXCEPT ![r] = Append(@, "launch")]
        /\ UNCHANGED <<pc, gen, browsers, result, resp>>
     \/ /\ Calls(r, "launch") >= 2
        /\ Settle(r, Failure("launch", "Error: Failed to launch the browser process"))
        /\ UNCHANGED <<gen, log, browsers>>
  /\ UNCHANGED <<req, hostState, aborted>>

\* await puppeteer.launch(...) settles: with a browser, and newPage is called;
\* or with an error, which leaves generatePdfFromJsx before its try block.
Launch(r) ==
  /\ pc[r] = "launch"
  /\ \/ LET b == LaunchedBrowser(r)
        IN /\ browsers' = [browsers EXCEPT ![b] = [@ EXCEPT !.state = "open", !.owner = r]]
           /\ gen' = [gen EXCEPT ![r].browser = b]
           /\ log' = [log EXCEPT ![r] = Append(@, "newPage")]
           /\ pc' = [pc EXCEPT ![r] = "newPage"]
           /\ UNCHANGED <<result, resp>>
     \/ /\ Settle(r, Failure("launch", "Error: Failed to launch the browser process"))
        /\ UNCHANGED <<gen, log, browsers>>
  /\ UNCHANGED <<req, hostState, aborted>>

\* await browser.newPage() settles.
NewPage(r) ==
  /\ pc[r] = "newPage"
  /\ \/ /\ browsers' = [browsers EXCEPT ![gen[r].browser].pages = @ + 1]
        /\ log' = [log EXCEPT ![r] = Append(@, "setContent")]
        /\ pc' = [pc EXCEPT ![r] = "setContent"]
        /\ UNCHANGED <<gen, result, resp>>
     \/ EnterFinally(r, Failure("newPage", "Error: Protocol error (Target.createTarget)"))
  /\ UNCHANGED <<req, hostState, aborted>>

\* A variant that calls page.pdf without awaiting page.setContent: the page
\* has not loaded the document when it is printed.
SetContentNotAwaited(r) ==
  /\ pc[r] = "setContent"
  /\ gen' = [gen EXCEPT ![r].pdfArgs = PdfArgs(gen[r].mergedOptions)]
  /\ log' = [log EXCEPT ![r] = Append(@, "pdf")]
  /\ pc' = [pc EXCEPT ![r] = "pdf"]
  /\ UNCHANGED <<browsers, result, resp>>
  /\ UNCHANGED <<req, hostState, aborted>>

\* await page.setContent(fullHtml, { waitUntil: 'networkidle0' }) settles;
\* on success page.pdf is called with the merged options.
SetContent(r) ==
  /\ pc[r] = "setContent"
  /\ \/ /\ browsers' = [browsers EXCEPT ![gen[r].browser].content = gen[r].fullHtml]
        /\ gen' = [gen EXCEPT ![r].pdfArgs = PdfArgs(gen[r].mergedOptions)]
        /\ log' = [log EXCEPT ![r] = Append(@, "pdf")]
        /\ pc' = [pc EXCEPT ![r] = "pdf"]
        /\ UNCHANGED <<result, resp>>
     \/ EnterFinally(r, Failure("setContent", "TimeoutError: Navigation timeout exceeded"))
  /\ UNCHANGED <<req, hostState, aborted>>

\* await page.pdf(...) settles.
Pdf(r) ==
  /\ pc[r] = "pdf"
  /\ \/ EnterFinally(r, Bytes(browsers[gen[r].browser].content, gen[r].pdfArgs))
     \/ EnterFinally(r, Failure("pdf", "Error: Protocol error (Page.printToPDF)"))
  /\ UNCHANGED <<req, hostState, aborted>>

\* A variant of the finally block that returns from inside it: whatever was
\* pending, the call resolves with the bytes of the page.
CloseReturnsFromFinally(r) ==
  /\ pc[r] = "close"
  /\ browsers' = [browsers EXCEPT ![gen[r].browser].state = "closed"]
  /\ Settle(r, Bytes(browsers[gen[r].browser].content, gen[r].pdfArgs))
  /\ UNCHANGED <<req, gen, log, hostState, aborted>>

\* A variant of the finally block that catches the error of browser.close():
\* the pending outcome goes to the caller whether the close succeeded or not.
CloseErrorSwallowed(r) ==
  /\ pc[r] = "close"
  /\ \E st \in {"open", "closed"} :
       browsers' = [browsers EXCEPT ![gen[r].browser].state = st]
  /\ Settle(r, gen[r].pending)
  /\ UNCHANGED <<req, gen, log, hostState, aborted>>

\* await browser.close() settles: the pending outcome goes to the caller, or
\* the error of close itself replaces it.  What a failed close leaves of the
\* browser process is not known.
Close(r) ==
  /\ pc[r] = "close"
  /\ \/ /\ browsers' = [browsers EXCEPT ![gen[r].browser].state = "closed"]
        /\ Settle(r, gen[r].pending)
     \/ /\ \E st \in {"open", "closed"} :
             browsers' = [browsers EXCEPT ![gen[r].browser].state = st]
        /\ Settle(r, Failure("close", "Error: Protocol error (Browser.close)"))
  /\ UNCHANGED <<req, gen, log, hostState, aborted>>

\* ------------------------------------------------------- specifications

Step(r) ==
  \/ CallGeneratePdfFromJsx(r)
  \/ CallGeneratePdfFromJsxString(r)
  \/ PostRender(r)
  \/ PostInvoice(r)
  \/ PostReport(r)
  \/ PostGenerate(r)
  \/ Launch(r)
  \/ NewPage(r)
  \/ SetContent(r)
  \/ Pdf(r)
  \/ Close(r)

\* The service under concurrent callers.
Next == \E r \in Reqs : Arrive(r, SmallInputs) \/ Step(r)

Spec == Init /\ [][Next]_vars

\* One caller, every input; its client may go away.
NextFull == Arrive(1, AllInputs) \/ Step(1) \/ Abort(1)

SpecFull == Init /\ [][NextFull]_vars

\* The synchronous part of a call or handler, which the event loop runs to
\* its first await once the request has arrived.
Handler(r) ==
  \/ CallGeneratePdfFromJsx(r)
  \/ CallGeneratePdfFromJsxString(r)
  \/ PostRender(r)
  \/ PostInvoice(r)
  \/ PostReport(r)
  \/ PostGenerate(r)

\* SpecFull with the scheduling of the event loop: a handler that can run
\* does run.  When, and whether, puppeteer settles an awaited promise is up
\* to the browser.
SpecLive == SpecFull /\ WF_vars(Handler(1))

\* The longest text, in chunks, of the escaping specification.
MaxTextLen == 3

\* The HTML metacharacters and one plain character.
TextChunks == {"<", ">", "&", "'", "\"", "x"}

Texts == UNION { [1..n -> TextChunks] : n \in 0..MaxTextLen }

\* Bodies posted to /api/pdf/render that render one text, as a text child or
\* through dangerouslySetInnerHTML.
EscapeInputs ==
  { [entry |-> "/render", body |-> [jsxTemplate |-> src, data |-> [title |-> t, c |-> t]]] :
      src \in {SrcTitle, SrcRaw}, t \in Texts }

\* Bodies whose text ends up in the file name: options.filename on /render,
\* invoiceNumber on /invoice.
TitleInputs ==
  { [entry |-> "/render",
     body |-> [jsxTemplate |-> SrcTitle, data |-> DataHi, options |-> [filename |-> t]]] :
      t \in Texts }
  \cup { [entry |-> "/invoice", body |-> [FullInvoice EXCEPT !.invoiceNumber = t]] :
           t \in Texts }

\* One caller, every text.
NextEscape == Arrive(1, EscapeInputs \cup TitleInputs \cup SmallInputs) \/ Step(1)

SpecEscape == Init /\ [][NextEscape]_vars

\* The longest list of items of the invoice specification.
MaxItems == 2

\* Items of one or two pieces at 5 or 10 a piece.
PricedItems ==
  { [description |-> <<"A">>, quantity |-> q, unitPrice |-> p] : q \in {1, 2}, p \in {5, 10} }

ItemLists == UNION { [1..n -> PricedItems] : n \in 0..MaxItems }

\* Bodies posted to /api/pdf/invoice, one for every list of items.
TotalsInputs ==
  { [entry |-> "/invoice", body |-> [FullInvoice EXCEPT !.items = ArrayOf(rows)]] :
      rows \in ItemLists }

\* One caller, every list of items.
NextInvoice == Arrive(1, TotalsInputs \cup SmallInputs) \/ Step(1)

SpecInvoice == Init /\ [][NextInvoice]_vars

\* ------------------------------------------------------------ vocabulary

\* The steps of a call that can fail before the finally block is entered with
\* a browser in hand.
TrySteps == {"newPage", "setContent", "pdf"}

\* The options argument generatePdfFromJsx received from caller r.
CallerOptions(r) ==
  LET body == req[r].body
  IN CASE req[r].entry = "/render" -> RenderOptions(body)
       [] req[r].entry = "/invoice" /\ ~MissingInvoiceFields(body) ->
            [filename |-> InvoiceFilename(body.invoiceNumber)]
       [] req[r].entry = "/report" /\ ~MissingReportFields(body) ->
            [filename |-> ReportFilename(body.title)]
       [] req[r].entry = "/generate" /\ ~MissingGenerateFields(body)
            /\ KnownTemplateType(body.templateType) -> GenerateOptions(body)
       [] OTHER -> IF Has(body, "options") THEN body.options ELSE EmptyObj

\* page.pdf has been called for caller r.
PdfCalled(r) == gen[r].pdfArgs # EmptyObj

\* ------------------------------------------------------------------ C1

InjectedAt(r) ==
  IF result[r].at = "launch" THEN "launch"
  ELSE IF gen[r].pending.kind = "error" THEN gen[r].pending.at
  ELSE ""

\* The browser of caller r is not left open (a rejected close() apart).
NoLeak(r) ==
  \A b \in DOMAIN browsers :
    (browsers[b].owner = r /\ result[r].at # "close") => browsers[b].state = "closed"

C3_MarginMergesPerSide ==
  \A r \in Reqs :
    (PdfCalled(r) /\ Has(CallerOptions(r), "margin")) =>
      \A side \in Sides :
        /\ Has(gen[r].pdfArgs.margin, side)
        /\ gen[r].pdfArgs.margin[side] =
             IF Has(CallerOptions(r).margin, side)
               THEN CallerOptions(r).margin[side]
               ELSE DefaultMargin

\* ------------------------------------------------------------------ C4

\* The text between <title> and </title> of an assembled document.
TitleOf(html) ==
  LET open == CHOOSE i \in DOMAIN html : html[i] = "<title>"
      close == CHOOSE i \in DOMAIN html : html[i] = "</title>"
  IN SubSeq(html, open + 1, close - 1)

\* C4: when generatePdfFromJsx gets no options, or options that set nothing
\* but filename, page.pdf is called with format 'Letter', landscape false and
\* '0.5in' on all four sides, and the document title is the filename given,
\* 'document.pdf' when none was.
C4_DefaultsWhenNoOptions ==
  \A r \in Reqs :
    (PdfCalled(r) /\ DOMAIN CallerOptions(r) \subseteq {"filename"}) =>
      /\ gen[r].pdfArgs.format = "Letter"
      /\ gen[r].pdfArgs.landscape = FALSE
      /\ DOMAIN gen[r].pdfArgs.margin = Sides
      /\ \A side \in Sides : gen[r].pdfArgs.margin[side] = "0.5in"
      /\ TitleOf(gen[r].fullHtml) =
           IF Has(CallerOptions(r), "filename")
             THEN CallerOptions(r).filename
             ELSE <<"document.pdf">>

\* page.pdf has been called for a library call without options, titled
\* document.pdf.
C4_Witness ==
  \E r \in Reqs :
    /\ PdfCalled(r)
    /\ req[r].entry = "generatePdfFromJsx"
    /\ ~Has(req[r].body, "options")
    /\ TitleOf(gen[r].fullHtml) = <<"document.pdf">>

\* ------------------------------------------------------------------ C5

\* C5: page.pdf is called with the merged options: format and landscape are
\* the caller's where the caller gave them and 'Letter' and false where not,
\* margin is the merged margin, and printBackground is true whatever the
\* caller sent.
C5_PdfCalledWithMergedOptions ==
  \A r \in Reqs :
    PdfCalled(r) =>
      LET o == CallerOptions(r)
          a == gen[r].pdfArgs
      IN /\ DOMAIN a = {"format", "landscape", "margin", "printBackground"}
         /\ a.format = IF Has(o, "format") THEN o.format ELSE "Letter"
         /\ a.landscape = IF Has(o, "landscape") THEN o.landscape ELSE FALSE
         /\ a.margin = gen[r].mergedOptions.margin
         /\ a.printBackground = TRUE

\* page.pdf has been called for a caller that asked for Legal in landscape
\* and sent printBackground: false.
C5_Witness ==
  \E r \in Reqs :
    /\ PdfCalled(r)
    /\ Has(CallerOptions(r), "printBackground") /\ ~CallerOptions(r).printBackground
    /\ Has(CallerOptions(r), "format") /\ CallerOptions(r).format = "Legal"
    /\ Has(CallerOptions(r), "landscape") /\ CallerOptions(r).landscape = TRUE
    /\ gen[r].pdfArgs.format = "Legal"
    /\ gen[r].pdfArgs.landscape = TRUE
    /\ gen[r].pdfArgs.printBackground

\* ------------------------------------------------------------------ C6

\* The source text and the data compileJsxString received from caller r.
JsxOf(r) ==
  IF req[r].entry = "/render" THEN req[r].body.jsxTemplate ELSE req[r].body.jsxString

DataOf(r) == IF Has(req[r].body, "data") THEN req[r].body.data ELSE EmptyObj

\* The parse, transform or evaluation of the source raises.
FailsToCompile(src, data) == ~TryCompile(src, data).ok

\* C6 as stated: a /render request whose jsxTemplate fails to compile is
\* answered 500 with a JSON body carrying the diagnostic, never 200 with a PDF
\* (requests that also met an engine failure are left aside).
C6_CompileFailureAnswered500 ==
  \A r \in Reqs :
    (req[r].entry = "/render" /\ Done(r) /\ gen[r].compiled
       /\ FailsToCompile(JsxOf(r), DataOf(r))
       /\ result[r].at \notin {"launch", "newPage", "setContent", "pdf", "close"}) =>
      /\ resp[r].status = 500
      /\ resp[r].pdf = EmptyObj
      /\ Has(resp[r].json, "details")
      /\ resp[r].json.details = TryCompile(JsxOf(r), DataOf(r)).message

\* ------------------------------------------------------------------ C7

\* C7 as stated: on every parse or evaluation failure, the empty source and a
\* source without Template among them, compileJsxString throws an error with
\* the diagnostic and returns no element.
C7_CompileFailureThrows ==
  \A r \in Reqs :
    (gen[r].compiled /\ FailsToCompile(JsxOf(r), DataOf(r))) =>
      /\ gen[r].compileThrew
      /\ gen[r].element # FallbackElement

\* ------------------------------------------------------------------ C8

\* Names through which the file system, the network, the process or its
\* environment are reached.
HostPrimitives == {"process", "require", "fs", "globalThis"}

\* C8 as stated: a source that reaches for a host primitive fails to compile,
\* and evaluating sources writes no host state.
C8_HostAccessFails ==
  /\ hostState = {}
  /\ \A r \in Reqs :
       (gen[r].compiled /\ SourceInfo(JsxOf(r)).reads \cap HostPrimitives # {}) =>
         gen[r].element.type # "Template"

\* ------------------------------------------------------------------ C9

\* The source parses, is a function body, declares Template, and its
\* top-level statements neither throw nor read a name that is out of scope.
WellFormed(src) ==
  LET info == SourceInfo(src)
  IN /\ info.parses /\ info.code /\ info.body /\ ~info.throws
     /\ "Template" \in info.declares
     /\ info.reads \subseteq GlobalScope \cup info.declares

\* The chunks between <body> and </body> of an assembled document.
BodyOf(html) ==
  LET open == CHOOSE i \in DOMAIN html : html[i] = "<body>"
      close == CHOOSE i \in DOMAIN html : html[i] = "</body>" /\ i > open
  IN SubSeq(html, open + 1, close - 1)

\* C9: for a well-formed source that defines Template, compileJsxString
\* returns the element of the user's Template with the caller's data as props,
\* never the fallback; if the view does not raise and no engine step fails,
\* generatePdfFromJsxString returns bytes printed from the user's markup; the
\* scenario source with { title: "Hi" } gives <div>Hi</div>.
C9_WellFormedSourceCompiles ==
  \A r \in Reqs :
    (gen[r].compiled /\ WellFormed(JsxOf(r))) =>
      /\ ~gen[r].compileThrew
      /\ gen[r].element.type = "Template"
      /\ gen[r].element.source = JsxOf(r)
      /\ gen[r].element.props = DataOf(r)
      /\ gen[r].element # FallbackElement
      /\ Done(r) =>
           /\ result[r].kind = "error" =>
                result[r].at \in EngineSteps \cup {"render"}
           /\ result[r].at = "render" => ~UserView(JsxOf(r), DataOf(r)).ok
           /\ result[r].kind = "bytes" =>
                /\ BodyOf(result[r].pdf.html) # <<"<div>", "Error rendering template", "</div>">>
                /\ (JsxOf(r) = SrcTitle /\ DataOf(r) = DataHi) =>
                     BodyOf(result[r].pdf.html) = <<"<div>", "Hi", "</div>">>

\* generatePdfFromJsxString has returned bytes for the scenario source with
\* { title: "Hi" }.
C9_Witness ==
  \E r \in Reqs :
    /\ Done(r) /\ gen[r].compiled
    /\ JsxOf(r) = SrcTitle /\ DataOf(r) = DataHi
    /\ result[r].kind = "bytes"
    /\ BodyOf(result[r].pdf.html) = <<"<div>", "Hi", "</div>">>

\* ------------------------------------------------------------------ C10

\* C10: a /render request without jsxTemplate (absent, or the empty string)
\* is answered 400 with a JSON error body, and neither compileJsxString nor
\* any engine call is ever made for it.
C10_MissingTemplateRejected ==
  \A r \in Reqs :
    (req[r].entry = "/render"
       /\ (~Has(req[r].body, "jsxTemplate") \/ req[r].body.jsxTemplate = "")) =>
      /\ ~gen[r].compiled
      /\ Calls(r, "compile") = 0
      /\ \A step \in EngineSteps : Calls(r, step) = 0
      /\ gen[r].browser = 0
      /\ \A b \in DOMAIN browsers : browsers[b].owner # r
      /\ Done(r) =>
           /\ resp[r].status = 400
           /\ Has(resp[r].json, "error")
           /\ resp[r].pdf = EmptyObj

\* A /render request whose body has no jsxTemplate has been answered.
C10_Witness ==
  \E r \in Reqs :
    /\ req[r].entry = "/render"
    /\ ~Has(req[r].body, "jsxTemplate")
    /\ Done(r)
    /\ resp[r].status = 400

\* ----------------------------------------------------------------- C11

\* The templateType of the body posted by r is neither 'invoice' nor 'report'.
UnknownTemplateType(r) ==
  /\ req[r].entry = "/generate"
  /\ Has(req[r].body, "templateType") => req[r].body.templateType \notin {"invoice", "report"}

\* C11: a POST /api/pdf/generate whose templateType is neither 'invoice' nor
\* 'report' is answered 400 with a JSON error; no element is ever created for
\* it, no view rendered and no browser launched.
C11_UnknownTemplateTypeRejected ==
  \A r \in Reqs :
    UnknownTemplateType(r) =>
      /\ gen[r] = NoGen
      /\ Calls(r, "render") = 0
      /\ Calls(r, "launch") = 0
      /\ result[r] = NoResult
      /\ Done(r) => /\ resp[r].status = 400
                    /\ Has(resp[r].json, "error")
                    /\ resp[r].pdf = EmptyObj

\* A body with data and templateType 'letter' has been answered 400.
C11_Witness ==
  \E r \in Reqs :
    /\ Done(r)
    /\ req[r].entry = "/generate"
    /\ Has(req[r].body, "data")
    /\ Has(req[r].body, "templateType") /\ req[r].body.templateType = "letter"
    /\ resp[r] = BadRequest("Invalid template type")

\* ----------------------------------------------------------------- C12

\* The props the request of r gives its template lack a field the template
\* requires: the body itself on /invoice and /report, body.data on /generate.
TemplateFieldsMissing(r) ==
  LET body == req[r].body
  IN CASE req[r].entry = "/invoice" -> MissingInvoiceFields(body)
       [] req[r].entry = "/report" -> MissingReportFields(body)
       [] req[r].entry = "/generate" ->
            /\ Has(body, "templateType") /\ Has(body, "data")
            /\ \/ body.templateType = "invoice" /\ MissingInvoiceFields(body.data)
               \/ body.templateType = "report" /\ MissingReportFields(body.data)
       [] OTHER -> FALSE

\* C12: on /invoice, /report and /generate a request whose template lacks a
\* required field is answered 400 with a JSON error, and its view is never
\* rendered.
C12_RequiredFieldsValidatedFirst ==
  \A r \in Reqs :
    TemplateFieldsMissing(r) =>
      /\ Calls(r, "render") = 0
      /\ Done(r) => resp[r].status = 400 /\ Has(resp[r].json, "error")

\* ----------------------------------------------------------------- C13

\* The view of the element that r handed to generatePdfFromJsx raises.
ViewRaises(r) ==
  /\ gen[r].element # NoElement
  /\ ~RenderToStaticMarkup(gen[r].element).ok

\* C13: on /invoice, /report and /generate, when the view raises while it is
\* rendered the call fails at once, no document is assembled, no browser is
\* launched, and the answer is 500 with a JSON error and no PDF.
C13_StaticViewFailureIs500 ==
  \A r \in Reqs :
    (req[r].entry \in FixedRoutes /\ ViewRaises(r)) =>
      /\ Done(r)
      /\ result[r].kind = "error" /\ result[r].at = "render"
      /\ gen[r].fullHtml = << >>
      /\ Calls(r, "assemble") = 0 /\ Calls(r, "launch") = 0
      /\ resp[r] = FixedFailure

\* An invoice whose items are no array passed validation, its view raised and
\* the request was answered 500.
C13_Witness ==
  \E r \in Reqs :
    /\ req[r].entry = "/invoice"
    /\ ~MissingInvoiceFields(req[r].body)
    /\ ViewRaises(r)
    /\ resp[r].status = 500

\* ----------------------------------------------------------------- C14

EngineFailed(r) ==
  \/ result[r].kind = "error" /\ result[r].at = "launch"
  \/ gen[r].pending.kind = "error" /\ gen[r].pending.at \in TrySteps

\* C15: once launch, newPage, setContent or page.pdf was rejected for a
\* request, no 200 is ever sent for it; its generatePdfFromJsx call ends
\* rejected with an error of the engine, and every route answers 500 with a
\* JSON error and neither PDF bytes nor PDF headers.
C15_EngineFailureIs500 ==
  \A r \in Reqs :
    EngineFailed(r) =>
      /\ resp[r].status # 200
      /\ Done(r) =>
            /\ result[r].kind = "error"
            /\ result[r].at \in EngineSteps
            /\ req[r].entry \in Routes =>
                  /\ resp[r].status = 500
                  /\ Has(resp[r].json, "error")
                  /\ resp[r].pdf = EmptyObj
                  /\ resp[r].headers = EmptyObj

\* setContent was rejected for a /generate request, the browser closed and
\* the request was answered 500.
C15_Witness ==
  \E r \in Reqs :
    /\ req[r].entry = "/generate"
    /\ Done(r)
    /\ result[r].kind = "error" /\ result[r].at = "setContent"
    /\ resp[r] = FixedFailure

\* ----------------------------------------------------------------- C16

\* The call of r awaits puppeteer.launch, page.setContent or page.pdf.
AwaitsEngine(r) == pc[r] \in {"launch", "setContent", "pdf"}

EngineCalls(steps) == SelectSeq(steps, LAMBDA step : step \in EngineSteps)

\* C17: once the client of a request has closed the connection, the request
\* starts no further engine work: the only engine call it still makes is
\* browser.close(), to release its browser.
C17_AbortAbandonsEngineWork ==
  [][\A r \in Reqs :
       (r \in aborted /\ EngineCalls(log'[r]) # EngineCalls(log[r])) =>
         EngineCalls(log'[r]) = Append(EngineCalls(log[r]), "close")]_vars

\* ----------------------------------------------------------------- C18

\* The answer to r is the whole PDF printed for it, with the PDF headers.
IsPdfAnswer(r) ==
  /\ resp[r].status = 200
  /\ result[r].kind = "bytes"
  /\ resp[r].pdf = [html |-> gen[r].fullHtml, args |-> gen[r].pdfArgs]
  /\ DOMAIN resp[r].headers = {"Content-Type", "Content-Disposition"}
  /\ resp[r].headers["Content-Type"] = <<"application/pdf">>
  /\ Head(resp[r].headers["Content-Disposition"]) = "attachment; filename="
  /\ Len(resp[r].headers["Content-Disposition"]) > 1
  /\ resp[r].json = EmptyObj

\* The answer to r is a JSON error with status 400 or 500 and nothing of a PDF.
IsErrorAnswer(r) ==
  /\ resp[r].status \in {400, 500}
  /\ Has(resp[r].json, "error")
  /\ resp[r].pdf = EmptyObj
  /\ resp[r].headers = EmptyObj
  /\ resp[r].status = 400 => result[r] = NoResult
  /\ resp[r].status = 500 => result[r].kind = "error"

\* C18: a request to a route is answered once, when its handler is done and
\* not before: with the whole PDF under the PDF headers after the generator
\* resolved, or with a JSON error of status 400 or 500 without any of them;
\* an answer that was sent never changes.
C18_ExactlyOneResponse ==
  /\ [](\A r \in Reqs :
          /\ ~Done(r) => resp[r] = NoResp
          /\ (Done(r) /\ req[r].entry \in Routes) => IsPdfAnswer(r) \/ IsErrorAnswer(r))
  /\ [][\A r \in Reqs : resp[r] # NoResp => resp'[r] = resp[r]]_vars

\* A /report request has been answered with its PDF, named after its title.
C18_Witness ==
  \E r \in Reqs :
    /\ req[r].entry = "/report"
    /\ Done(r)
    /\ IsPdfAnswer(r)
    /\ resp[r].headers["Content-Disposition"] =
         <<"attachment; filename=", "Report-", "Q1", "-", "Sales", ".pdf">>

\* ----------------------------------------------------------------- C19

OpenBrowsers == {b \in DOMAIN browsers : browsers[b].state = "open"}

\* The callers between the launch of their browser and the end of its close.
Holding(r) == pc[r] \in {"newPage", "setContent", "pdf", "close"}

\* The callers that have finished with the error of a rejected browser.close().
CloseRejected(r) == Done(r) /\ result[r].kind = "error" /\ result[r].at = "close"

\* No browser is shared: every open browser has at most one page, belongs to
\* the one caller that launched it, and holds nothing but the document of that
\* caller; the callers in owners are those that may own an open browser.
Isolated(owners) ==
  /\ \A b \in OpenBrowsers :
        /\ browsers[b].pages <= 1
        /\ browsers[b].owner \in owners
        /\ gen[browsers[b].owner].browser = b
        /\ browsers[b].content \in {<< >>, gen[browsers[b].owner].fullHtml}
  /\ \A r1, r2 \in Reqs :
        (r1 # r2 /\ gen[r1].browser # 0) => gen[r1].browser # gen[r2].browser
  /\ \A r \in Reqs :
        (pc[r] \in {"pdf", "close"} /\ gen[r].pending.kind # "error") =>
          browsers[gen[r].browser].content = gen[r].fullHtml

StageOf(step) ==
  CASE step = "validate" -> 0
    [] step = "compile" -> 1
    [] step = "render" -> 2
    [] step = "assemble" -> 3
    [] step \in EngineSteps -> 4

\* The entries that compile a template source.
DynamicEntries == {"/render", "generatePdfFromJsxString"}

\* C20: the steps of a request run in the order compile, render, assemble,
\* render to PDF, each of the first three once; compile runs for the dynamic
\* entries only and always before their render; a stage starts only when the
\* one before it returned without raising; and the step in progress is the
\* last one started, so that no two are under way together.
C20_StagesInOrder ==
  \A r \in Reqs :
    /\ \A i, j \in DOMAIN log[r] :
          i < j => /\ StageOf(log[r][i]) <= StageOf(log[r][j])
                   /\ StageOf(log[r][i]) < 4 => StageOf(log[r][i]) < StageOf(log[r][j])
    /\ Calls(r, "compile") > 0 => req[r].entry \in DynamicEntries
    /\ Calls(r, "render") > 0 =>
          /\ req[r].entry \in DynamicEntries => Calls(r, "compile") = 1 /\ ~gen[r].compileThrew
          /\ gen[r].element # NoElement
    /\ Calls(r, "assemble") > 0 =>
          Calls(r, "render") = 1 /\ RenderToStaticMarkup(gen[r].element).ok
    /\ Calls(r, "launch") > 0 => Calls(r, "assemble") = 1 /\ gen[r].fullHtml # << >>
    /\ \A step \in EngineSteps \ {"launch"} : Calls(r, step) > 0 => Calls(r, "launch") = 1
    /\ (result[r].kind = "error" /\ result[r].at \in {"compile", "render"}) =>
          log[r][Len(log[r])] = result[r].at
    /\ pc[r] \in EngineSteps => log[r][Len(log[r])] = pc[r]

\* A /render request has run every stage, in order, and has its PDF.
C20_Witness ==
  \E r \in Reqs :
    /\ req[r].entry = "/render"
    /\ Done(r)
    /\ resp[r].status = 200
    /\ log[r] = <<"validate", "compile", "render", "assemble", "launch", "newPage",
                  "setContent", "pdf", "close">>

\* ----------------------------------------------------------------- C21

\* C21: whatever fails, a request compiles its source at most once, renders
\* its view at most once and calls puppeteer.launch at most once, so that at
\* most one browser is ever launched for it; a call that was rejected makes
\* no further step but the browser.close() of its finally block.
C21_NoStageRetried ==
  \A r \in Reqs :
    /\ Calls(r, "compile") <= 1
    /\ Calls(r, "render") <= 1
    /\ Calls(r, "launch") <= 1
    /\ Cardinality({b \in DOMAIN browsers : browsers[b].owner = r}) <= 1
    /\ \A step \in TrySteps : Calls(r, step) <= 1
    /\ (result[r].kind = "error" \/ gen[r].pending.kind = "error") =>
          pc[r] \in {"close", "done"}

\* A launch was rejected and the request is over after that one attempt.
C21_Witness ==
  \E r \in Reqs :
    /\ Done(r)
    /\ result[r].kind = "error" /\ result[r].at = "launch"
    /\ Calls(r, "launch") = 1
    /\ Calls(r, "render") = 1

\* ----------------------------------------------------------------- C22

\* What a browser reads an escaped chunk as.
UnescapeChunk(c) ==
  CASE c = "&lt;" -> "<"
    [] c = "&gt;" -> ">"
    [] c = "&amp;" -> "&"
    [] c = "&#x27;" -> "'"
    [] c = "&quot;" -> "\""
    [] OTHER -> c

\* The chunks of html between its first and its last chunk.
Inner(html) == SubSeq(html, 2, Len(html) - 1)

\* Caller r posted a source to /render and its document has been assembled.
Assembled(r) ==
  /\ req[r].entry = "/render"
  /\ Has(req[r].body, "jsxTemplate") /\ Has(req[r].body, "data")
  /\ gen[r].fullHtml # << >>

\* C22: a text rendered as the only text child of a div comes out between
\* <div> and </div> with no chunk that opens or closes a tag, and reads back
\* as the text; the same text rendered through dangerouslySetInnerHTML comes
\* out between <div> and </div> as it is.
C22_TextEscapedRawVerbatim ==
  \A r \in Reqs :
    Assembled(r) =>
      LET body == BodyOf(gen[r].fullHtml)
          data == req[r].body.data
      IN /\ (JsxOf(r) = SrcTitle /\ Has(data, "title")) =>
              /\ body[1] = "<div>" /\ body[Len(body)] = "</div>"
              /\ Len(Inner(body)) = Len(data.title)
              /\ \A i \in DOMAIN Inner(body) :
                    /\ Inner(body)[i] \notin {"<", ">"}
                    /\ UnescapeChunk(Inner(body)[i]) = data.title[i]
         /\ (JsxOf(r) = SrcRaw /\ Has(data, "c")) =>
              body = <<"<div>">> \o data.c \o <<"</div>">>

\* The text <x> was rendered as a text child and came out escaped.
C22_Witness ==
  \E r \in Reqs :
    /\ Assembled(r)
    /\ JsxOf(r) = SrcTitle
    /\ req[r].body.data.title = <<"<", "x", ">">>
    /\ BodyOf(gen[r].fullHtml) = <<"<div>", "&lt;", "x", "&gt;", "</div>">>

\* ----------------------------------------------------------------- C23

\* The Template of r writes a prop through dangerouslySetInnerHTML.
UsesRawHtml(r) ==
  /\ req[r].entry \in DynamicEntries
  /\ gen[r].element.type = "Template"
  /\ gen[r].element.source = SrcRaw

\* C23: unless its Template uses dangerouslySetInnerHTML, the document a
\* request hands to the browser holds no < and no > that came from the
\* caller: the only chunks that open or close a tag are those the templates
\* and generatePdfFromJsx wrote themselves.
C23_OnlyRawHtmlUnescaped ==
  \A r \in Reqs :
    ~UsesRawHtml(r) =>
      \A i \in DOMAIN gen[r].fullHtml : gen[r].fullHtml[i] \notin {"<", ">"}

\* ----------------------------------------------------------------- C24

\* C24: two requests with the same entry and the same body (the same view,
\* props and options) hand the browser the same document, whatever ran before
\* or between them.
C24_SameInputSameDocument ==
  \A r1, r2 \in Reqs :
    (req[r1] = req[r2] /\ gen[r1].fullHtml # << >> /\ gen[r2].fullHtml # << >>) =>
      gen[r1].fullHtml = gen[r2].fullHtml

\* ----------------------------------------------------------------- C25

\* The items of the invoice r posted, once its document has been assembled.
InvoiceAssembled(r) ==
  /\ req[r].entry = "/invoice"
  /\ gen[r].fullHtml # << >>

\* The chunks of html that follow the chunk label and its dollar sign, up to
\* the second decimal.
AmountAfter(html, label) ==
  LET i == CHOOSE k \in DOMAIN html : html[k] = label
  IN SubSeq(html, i + 2, i + 5)

\* The sum of quantity * unitPrice over the items at the positions in idx.
RECURSIVE SumOver(_, _)
SumOver(rows, idx) ==
  IF idx = {} THEN 0
  ELSE LET i == CHOOSE k \in idx : TRUE
       IN rows[i].quantity * rows[i].unitPrice + SumOver(rows, idx \ {i})

\* C25: for every list of items the invoice shows, with two decimals, the
\* sum of quantity * unitPrice as subtotal, a tenth of it as tax and their
\* sum as total.
C25_InvoiceTotals ==
  \A r \in Reqs :
    InvoiceAssembled(r) =>
      LET rows == req[r].body.items.rows
          html == gen[r].fullHtml
          sum == SumOver(rows, DOMAIN rows)
      IN /\ AmountAfter(html, "Subtotal:") = <<ToString(sum), ".", "0", "0">>
         /\ AmountAfter(html, "Tax (10%):") =
              <<ToString(sum \div 10), ".", ToString(sum % 10), "0">>
         /\ AmountAfter(html, "Total:") =
              <<ToString((11 * sum) \div 10), ".", ToString((11 * sum) % 10), "0">>

\* The invoice of two items at 10 and one at 5 shows 25.00, 2.50 and 27.50.
C25_Witness ==
  \E r \in Reqs :
    /\ InvoiceAssembled(r)
    /\ req[r].body.items.rows =
         <<[description |-> <<"A">>, quantity |-> 2, unitPrice |-> 10],
           [description |-> <<"A">>, quantity |-> 1, unitPrice |-> 5]>>
    /\ AmountAfter(gen[r].fullHtml, "Subtotal:") = <<"25", ".", "0", "0">>
    /\ AmountAfter(gen[r].fullHtml, "Tax (10%):") = <<"2", ".", "5", "0">>
    /\ AmountAfter(gen[r].fullHtml, "Total:") = <<"27", ".", "5", "0">>

\* ----------------------------------------------------------------- C26

\* The engine calls of a call that meets no failure, in the order of the code.
EngineOrder == <<"launch", "newPage", "setContent", "pdf", "close">>

\* C26: the engine calls of a request are launch, newPage, setContent and
\* page.pdf in this order, as far as the request got, with browser.close last
\* if a browser was launched; page.pdf is called only when setContent has
\* resolved, the page holding the whole document; and when page.pdf was
\* called, browser.close is called only once page.pdf has returned the bytes
\* or raised.
C26_EngineStepOrder ==
  \A r \in Reqs :
    LET calls == EngineCalls(log[r])
        n == Len(calls)
    IN /\ n <= 5
       /\ \A i \in 1..n : calls[i] \in {EngineOrder[i], "close"}
       /\ \A i \in 1..n : calls[i] = "close" => i = n /\ i >= 3
       /\ Calls(r, "pdf") > 0 =>
            /\ browsers[gen[r].browser].pages = 1
            /\ browsers[gen[r].browser].content = gen[r].fullHtml
       /\ (Calls(r, "pdf") > 0 /\ Calls(r, "close") > 0) =>
            \/ gen[r].pending.kind = "bytes"
            \/ gen[r].pending.kind = "error" /\ gen[r].pending.at = "pdf"
       /\ pc[r] = "pdf" => Calls(r, "close") = 0

\* A request has made all five engine calls in order and its browser is
\* closed.
C26_Witness ==
  \E r \in Reqs :
    /\ Done(r)
    /\ EngineCalls(log[r]) = EngineOrder
    /\ result[r].kind = "bytes"
    /\ browsers[gen[r].browser].state = "closed"

\* ----------------------------------------------------------------- C27

\* The source r gave to the dynamic path has been through compileJsxString
\* and its parse, transform or evaluation raised.
CompileFailed(r) ==
  /\ req[r].entry \in DynamicEntries
  /\ gen[r].compiled
  /\ FailsToCompile(JsxOf(r), DataOf(r))

\* C27: when the source of a dynamic request fails to compile, nothing is
\* thrown; the fallback element takes the place of the view, it is rendered
\* and assembled into a document whose body is the fragment 'Error rendering
\* template', the browser is launched, and unless an engine call fails
\* generatePdfFromJsxString returns the PDF printed from that document, which
\* /render sends with status 200.
C27_FallbackPdfOnCompileFailure ==
  \A r \in Reqs :
    CompileFailed(r) =>
      /\ ~gen[r].compileThrew
      /\ gen[r].element = FallbackElement
      /\ BodyOf(gen[r].fullHtml) = <<"<div>", "Error rendering template", "</div>">>
      /\ Calls(r, "render") = 1 /\ Calls(r, "assemble") = 1 /\ Calls(r, "launch") = 1
      /\ Done(r) =>
            \/ result[r].kind = "error" /\ result[r].at \in EngineSteps
            \/ /\ result[r].kind = "bytes"
               /\ result[r].pdf.html = gen[r].fullHtml
               /\ req[r].entry = "/render" => resp[r].status = 200 /\ resp[r].pdf = result[r].pdf

\* generatePdfFromJsxString was called with the unbalanced source and has
\* returned the PDF of the fallback fragment.
C27_Witness ==
  \E r \in Reqs :
    /\ req[r].entry = "generatePdfFromJsxString"
    /\ req[r].body.jsxString = SrcUnbalanced
    /\ Done(r)
    /\ result[r].kind = "bytes"
    /\ BodyOf(result[r].pdf.html) = <<"<div>", "Error rendering template", "</div>">>

\* ----------------------------------------------------------------- C28

\* C28: when the view of a request raises in renderToStaticMarkup, on a fixed
\* route, on /render or in a library call, puppeteer.launch is never called
\* for it and no browser is its own; and the step in which the render fails
\* leaves every browser as it was.
C28_RenderFailureLaunchesNothing ==
  /\ [](\A r \in Reqs :
          ViewRaises(r) =>
            /\ result[r].kind = "error" /\ result[r].at = "render"
            /\ Calls(r, "launch") = 0
            /\ gen[r].browser = 0
            /\ \A b \in DOMAIN browsers : browsers[b].owner # r)
  /\ [][\A r \in Reqs :
          (result[r].kind = "none" /\ result'[r].kind = "error" /\ result'[r].at = "render")
            => browsers' = browsers]_vars

\* The Template of a /render request raised while it was rendered, and the
\* request is over without a launch.
C28_Witness ==
  \E r \in Reqs :
    /\ req[r].entry = "/render"
    /\ Done(r)
    /\ gen[r].element.type = "Template" /\ ViewRaises(r)
    /\ log[r] = <<"validate", "compile", "render">>

\* ----------------------------------------------------------------- C29

\* The browser of caller r is still open although its call is over: its
\* browser.close() was rejected.
CloseFailed(r) ==
  /\ result[r].kind # "none"
  /\ gen[r].browser # 0
  /\ browsers[gen[r].browser].state = "open"

\* C29: a call that resolves with PDF bytes has had its browser.close()
\* succeed, and the bytes are those page.pdf produced; a call whose
\* browser.close() failed rejects with the error of close, whether page.pdf
\* had produced bytes or had failed itself, and returns no bytes.
C29_BytesOnlyAfterClose ==
  \A r \in Reqs :
    /\ result[r].kind = "bytes" =>
          /\ browsers[gen[r].browser].state = "closed"
          /\ browsers[gen[r].browser].closeCalls = 1
          /\ gen[r].pending.kind = "bytes" /\ result[r] = gen[r].pending
    /\ CloseFailed(r) =>
          /\ result[r] = Failure("close", "Error: Protocol error (Browser.close)")
          /\ result[r].pdf = EmptyObj

\* page.pdf produced the bytes, browser.close() failed, and the call rejected
\* with the error of close.
C29_Witness ==
  \E r \in Reqs :
    /\ CloseFailed(r)
    /\ gen[r].pending.kind = "bytes"
    /\ result[r].kind = "error" /\ result[r].at = "close"

\* ----------------------------------------------------------------- C30

\* The fields each route destructures from the body and tests with `!`.
RequiredFields(entry) ==
  CASE entry = "/invoice" -> InvoiceText \cup {"items"}
    [] entry = "/report" -> ReportText \cup {"data"}
    [] entry = "/generate" -> {"templateType", "data"}
    [] entry = "/render" -> {"jsxTemplate"}

\* !v for the value of field k: a text field is falsy when it is the empty
\* string, templateType and jsxTemplate likewise; items and data are falsy
\* when they are null, 0, false or "", never when they are an array or object.
Falsy(k, v) ==
  CASE k \in InvoiceText \cup ReportText -> v = << >>
    [] k \in {"templateType", "jsxTemplate"} -> v = ""
    [] OTHER -> Has(v, "truthy") /\ ~v.truthy

\* Some required field of the body is absent, or present but falsy.
LacksRequired(input) ==
  \E k \in RequiredFields(input.entry) :
    ~Has(input.body, k) \/ Falsy(k, input.body[k])

\* The 400 answer of each route's required-field check.
MissingFieldsAnswer(entry) ==
  IF entry = "/render" THEN BadRequest("Missing JSX template")
                       ELSE BadRequest("Missing required fields")

\* items (on /invoice) or data (on /report) is present and truthy but is an
\* empty array or no array at all.
WrongShape(input) ==
  LET k == IF input.entry = "/invoice" THEN "items" ELSE "data"
  IN /\ input.entry \in {"/invoice", "/report"}
     /\ Has(input.body, k)
     /\ input.body[k].truthy
     /\ (~input.body[k].array \/ input.body[k].rows = << >>)

\* C30: on the four routes a request with a required field absent or present
\* but falsy is answered 400 with the route's missing-fields message and
\* nothing is rendered; a request whose required fields are all present and
\* truthy is not answered with that message, and when its items or data
\* have the wrong shape it still has its view rendered.
C30_ValidationIsFalsiness ==
  \A r \in Reqs :
    (req[r].entry \in Routes /\ Done(r)) =>
      /\ LacksRequired(req[r]) =>
            /\ resp[r] = MissingFieldsAnswer(req[r].entry)
            /\ log[r] = <<"validate">>
      /\ ~LacksRequired(req[r]) =>
            /\ resp[r] # MissingFieldsAnswer(req[r].entry)
            /\ WrongShape(req[r]) => Calls(r, "render") = 1

\* An /invoice request whose items is not an array passed the check and
\* its view was rendered.
C30_Witness ==
  \E r \in Reqs :
    /\ req[r].entry = "/invoice" /\ Done(r)
    /\ ~LacksRequired(req[r])
    /\ ~req[r].body.items.array
    /\ Calls(r, "render") = 1
    /\ resp[r].status # 400

====
